---- MODULE Spec2Model ----
(***************************************************************************)
(* Vajont Dam Visualizer: the disaster-sequence choreographer.             *)
(*                                                                         *)
(* The model follows js/controllers/DisasterController.js and the code it  *)
(* calls (CameraController.setCamera, the AnimationUtils helpers, the      *)
(* GeologyModel / WaterModel updaters, the UIView slider handler and the   *)
(* keyboard shortcuts of js/controls.js).                                  *)
(*                                                                         *)
(* Arithmetic is fixed point: progress and eased progress are per-mille    *)
(* (Scale = 1000 stands for 1.0), lengths are in 1/1000 scene units,       *)
(* angles in 1/1000 rad, the water height in 1/100 scene units and the     *)
(* timeline width in 1/1000 percent.  Time is in milliseconds.             *)
(*                                                                         *)
(* Scheduling is the browser's: every user event, timer expiry and frame   *)
(* is one task; the promise continuations it releases run inside the same  *)
(* task.  An action of the model is one task.                              *)
(***************************************************************************)
EXTENDS Integers, Sequences, FiniteSets, TLC

\* ---------------------------------------------------------------- bounds
\* time between two frames (ms)
FrameMs == 1100
\* concurrent invocations of playDisasterSequence the model keeps track of
MaxRuns == 2
\* camera transitions in flight above which the user stops acting
MaxCamAnims == 2
\* summary overlays above which no further run is started
MaxOverlays == 2
\* landslide displacements of the block above which no further run is started
MaxSlides == 1
\* render-loop callback chains above which start() is not called again
MaxChains == 4

\* --------------------------------------------------------- program constants
Scale == 1000
cameraTransition == 1000
landslideTime == 3000
tsunamiTime == 4000
msPerLevel == 50
pauseMs == 1000
landslideShakeMs == 500
tsunamiShakeMs == 2000
defaultLevel == 30
startLevel == 30
endLevel == 85
keyStep == 5
initialHeight == 40
minHeight == 5
maxHeight == 90
damHeight == 90
saturationThreshold == 30
stabilityCritical == 80
stabilityVeryLow == 65
stabilityLow == 50
stabilityModerate == 35
stabilityGood == 20

Min(a, b) == IF a < b THEN a ELSE b
Max(a, b) == IF a > b THEN a ELSE b

\* ------------------------------------------------------------------ easing
\* easeInOutQuad of t / one, as a count of 1 / (one * one): the water level
\* is rounded from it, so it is kept exact
\* mutant: the first half's parabola is used over the whole interval
easeInOutQuadFirstHalf(t, one) == 2 * t * t

easeInOutQuad(t, one) ==
    IF 2 * t < one THEN 2 * t * t
    ELSE one * one - 2 * (one - t) * (one - t)

\* easeInOutCubic of t / one, as a count of 1 / (one * one * one): whether the
\* camera is on a preset depends on it being exactly 0 or exactly 1
easeInOutCubic(t, one) ==
    IF 2 * t < one THEN 4 * t * t * t
    ELSE one * one * one - 4 * (one - t) * (one - t) * (one - t)

\* the other easing functions: t and the result are per-mille
easeOutQuad(t) == Scale - (((Scale - t) * (Scale - t)) \div Scale)

easeOutCubic(t) ==
    Scale - (((Scale - t) * (Scale - t) * (Scale - t)) \div (Scale * Scale))

\* c1 = 1.70158, c2 = c1 * 1.525 = 2.5949095
backC2 == 2595
easeInOutBack(t) ==
    IF t < 500
    THEN ((((2 * t) * (2 * t)) \div Scale)
            * ((((backC2 + Scale) * 2 * t) \div Scale) - backC2)) \div (2 * Scale)
    ELSE ((((((2 * t - 2 * Scale) * (2 * t - 2 * Scale)) \div Scale)
            * ((((backC2 + Scale) * (2 * t - 2 * Scale)) \div Scale) + backC2)) \div Scale)
          + 2 * Scale) \div 2

\* Math.min(elapsed / duration, 1), per-mille
Progress(elapsed, duration) == Min((elapsed * Scale) \div duration, Scale)

\* --------------------------------------------------------- parameter model
\* mutant: the height is measured from zero instead of minHeight
heightFromLevelNoMin(lv) == lv * (maxHeight - minHeight)

\* WaterModel.updateWaterLevel: mesh height in 1/100 units
heightFromLevel(lv) == (lv * (maxHeight - minHeight)) + minHeight * 100

\* mutant: the end level of the water rise is not yet critical
stabilityOfCriticalAboveEnd(lv) ==
    IF lv > endLevel THEN "critical"
    ELSE IF lv > stabilityVeryLow THEN "veryLow"
    ELSE IF lv > stabilityLow THEN "low"
    ELSE IF lv > stabilityModerate THEN "moderate"
    ELSE IF lv > stabilityGood THEN "good"
    ELSE "excellent"

\* DisasterController._updateStabilityStatus
stabilityOf(lv) ==
    IF lv > stabilityCritical THEN "critical"
    ELSE IF lv > stabilityVeryLow THEN "veryLow"
    ELSE IF lv > stabilityLow THEN "low"
    ELSE IF lv > stabilityModerate THEN "moderate"
    ELSE IF lv > stabilityGood THEN "good"
    ELSE "excellent"

\* DisasterController._updateStabilityStatus, the indicator's background
stabilityColorOf(lv) ==
    IF lv > stabilityCritical THEN "#e53935"
    ELSE IF lv > stabilityVeryLow THEN "#ff5252"
    ELSE IF lv > stabilityLow THEN "#ff9800"
    ELSE IF lv > stabilityModerate THEN "#ffc107"
    ELSE IF lv > stabilityGood THEN "#cddc39"
    ELSE "#4caf50"

\* mutant: the view's thresholds are inclusive
updateStabilityIndicatorInclusive(value) ==
    IF value >= 80 THEN [text |-> "critical", color |-> "#e53935"]
    ELSE IF value >= 65 THEN [text |-> "veryLow", color |-> "#ff5252"]
    ELSE IF value >= 50 THEN [text |-> "low", color |-> "#ff9800"]
    ELSE IF value >= 35 THEN [text |-> "moderate", color |-> "#ffc107"]
    ELSE IF value >= 20 THEN [text |-> "good", color |-> "#cddc39"]
    ELSE [text |-> "excellent", color |-> "#4caf50"]

\* UIView.updateStabilityIndicator: its own literal thresholds
updateStabilityIndicator(value) ==
    IF value > 80 THEN [text |-> "critical", color |-> "#e53935"]
    ELSE IF value > 65 THEN [text |-> "veryLow", color |-> "#ff5252"]
    ELSE IF value > 50 THEN [text |-> "low", color |-> "#ff9800"]
    ELSE IF value > 35 THEN [text |-> "moderate", color |-> "#ffc107"]
    ELSE IF value > 20 THEN [text |-> "good", color |-> "#cddc39"]
    ELSE [text |-> "excellent", color |-> "#4caf50"]

\* mutant: the clay layer's thresholds are inclusive
clayStressOfInclusive(lv) ==
    IF lv >= stabilityVeryLow THEN "red"
    ELSE IF lv >= stabilityLow THEN "orange"
    ELSE "neutral"

\* GeologyModel.updateClayLayer
clayStressOf(lv) ==
    IF lv > stabilityVeryLow THEN "red"
    ELSE IF lv > stabilityLow THEN "orange"
    ELSE "neutral"

\* mutant: the zone is shown from the threshold itself
updateSaturationZoneFromThreshold(zone, lv) ==
    IF lv >= saturationThreshold
    THEN LET f == ((lv - saturationThreshold) * Scale) \div (100 - saturationThreshold)
         IN  [visible |-> TRUE, opacity |-> 300 + f \div 2, scale |-> 600 + f \div 2]
    ELSE [zone EXCEPT !.visible = FALSE]

\* GeologyModel.updateSaturationZone: opacity and scale are written only when
\* the zone is shown; hiding leaves them as they were
updateSaturationZone(zone, lv) ==
    IF lv > saturationThreshold
    THEN LET f == ((lv - saturationThreshold) * Scale) \div (100 - saturationThreshold)
         IN  [visible |-> TRUE, opacity |-> 300 + f \div 2, scale |-> 600 + f \div 2]
    ELSE [zone EXCEPT !.visible = FALSE]

\* ------------------------------------------------------------------- state
VARIABLES
    animating,        \* DisasterController.animating, the run flag
    level,            \* waterLevelSlider.value
    waterY,           \* waterMesh.position.y (1/100)
    stability,        \* category shown by the stability indicator
    stabilityColor,   \* the indicator's style.backgroundColor
    sat,              \* saturatedZone: visible, material.opacity, scale.y
    clay,             \* clayLayer material state
    blockPresent,     \* models.geology.landslideBlock is not null
    block,            \* landslideBlock: visible, position, rotation
    timelineVisible,  \* #timeline display is 'block'
    timelineWidth,    \* #timeline-progress width (1/1000 percent)
    buttonsDisabled,  \* button.disabled of the page's buttons
    sliderDisabled,   \* waterLevelSlider.disabled
    controlsEnabled,  \* OrbitControls.enabled
    activeView,       \* view button carrying the 'active' class
    camPos,           \* camera.position
    camTarget,        \* controls.target
    objects,          \* scene children tagged userData.isAnimationObject, by kind
    overlays,         \* summary overlays attached to the document
    viewOverlays,     \* those of them attached by UIView.showDisasterSummary
    runs,             \* the invocations of playDisasterSequence and where each waits
    raf,              \* callbacks registered with requestAnimationFrame, in order
    fault,            \* the tick callback that is going to throw, if any
    sim               \* SimulationController: init() progress and render loop

vars == <<animating, level, waterY, stability, stabilityColor, sat, clay,
          blockPresent, block,
          timelineVisible, timelineWidth, buttonsDisabled, sliderDisabled,
          controlsEnabled, activeView, camPos, camTarget, objects, overlays,
          viewOverlays, runs, raf, fault, sim>>

\* the state as one value, so that a handler is a function from state to state
Cur ==
    [animating |-> animating, level |-> level, waterY |-> waterY,
     stability |-> stability, stabilityColor |-> stabilityColor,
     sat |-> sat, clay |-> clay,
     blockPresent |-> blockPresent, block |-> block,
     timelineVisible |-> timelineVisible, timelineWidth |-> timelineWidth,
     buttonsDisabled |-> buttonsDisabled, sliderDisabled |-> sliderDisabled,
     controlsEnabled |-> controlsEnabled, activeView |-> activeView,
     camPos |-> camPos, camTarget |-> camTarget, objects |-> objects,
     overlays |-> overlays, viewOverlays |-> viewOverlays,
     runs |-> runs, raf |-> raf, fault |-> fault, sim |-> sim]

Becomes(s) ==
    /\ animating' = s.animating
    /\ level' = s.level
    /\ waterY' = s.waterY
    /\ stability' = s.stability
    /\ stabilityColor' = s.stabilityColor
    /\ sat' = s.sat
    /\ clay' = s.clay
    /\ blockPresent' = s.blockPresent
    /\ block' = s.block
    /\ timelineVisible' = s.timelineVisible
    /\ timelineWidth' = s.timelineWidth
    /\ buttonsDisabled' = s.buttonsDisabled
    /\ sliderDisabled' = s.sliderDisabled
    /\ controlsEnabled' = s.controlsEnabled
    /\ activeView' = s.activeView
    /\ camPos' = s.camPos
    /\ camTarget' = s.camTarget
    /\ objects' = s.objects
    /\ overlays' = s.overlays
    /\ viewOverlays' = s.viewOverlays
    /\ runs' = s.runs
    /\ raf' = s.raf
    /\ fault' = s.fault
    /\ sim' = s.sim

RunIds == 1 .. MaxRuns
Presets == {"aerial", "dam", "slope", "geology"}
\* the names for which the page has a button with the id view-<name>: the
\* Dam View button of index.html carries the id view-front
ViewButtonIds == {"aerial", "front", "slope", "geology"}
\* the buttons CameraController._setupEventListeners finds and gives a click
\* listener: it looks up view-aerial, view-dam, view-slope and view-geology
ViewListenerIds == {"aerial", "dam", "slope", "geology"} \cap ViewButtonIds
ZeroVec == [x |-> 0, y |-> 0, z |-> 0]
\* landslideBlock.userData.originalPosition / originalRotation
originalPosition == ZeroVec
originalRotation == ZeroVec
NoObjects == [debris |-> 0, wave |-> 0, splash |-> 0, overtopping |-> 0]
NoFault == [phase |-> "none", after |-> 0, at |-> "none"]
Thrown == [phase |-> "thrown", after |-> 0, at |-> "none"]

\* a run that is not waiting for anything
DoneRun == [pc |-> "done", elapsed |-> 0, startPos |-> ZeroVec,
            startRot |-> ZeroVec, waterHeight |-> 0]

TickEntry(kind, r) ==
    [kind |-> kind, run |-> r, from |-> "none", fromT |-> "none", to |-> "none",
     elapsed |-> 0, dur |-> 0]

Live(s, r) == s.runs[r].pc # "done"
CamCount(q) == Cardinality({i \in 1 .. Len(q) : q[i].kind = "cam"})

\* the tick of 'phase' of run r throws now, at the place 'at': on entry,
\* before it has written anything, or in the first collaborator it calls
Throws(s, phase, r, at) ==
    /\ s.fault.phase = phase
    /\ s.fault.at = at
    /\ s.runs[r].elapsed >= s.fault.after

\* ----------------------------------------------------------------- camera
\* Vector3.lerpVectors on positions known only as a preset or "off any
\* preset"; the interpolation factor is alpha / one
lerpVectors(from, to, alpha, one) ==
    IF alpha = one THEN to
    ELSE IF alpha = 0 \/ from = to THEN from
    ELSE "offPreset"

\* mutant: the slider is left enabled
disableControlsButtonsOnly(s) ==
    [s EXCEPT !.buttonsDisabled = TRUE, !.controlsEnabled = FALSE]

\* DisasterController._disableControls / _enableControls
disableControls(s) ==
    [s EXCEPT !.buttonsDisabled = TRUE, !.sliderDisabled = TRUE,
              !.controlsEnabled = FALSE]

enableControls(s) ==
    [s EXCEPT !.buttonsDisabled = FALSE, !.sliderDisabled = FALSE,
              !.controlsEnabled = TRUE]

\* the level and everything derived from it, as the water-rise tick writes it
applyLevel(s, lv) ==
    [s EXCEPT !.level = lv, !.waterY = heightFromLevel(lv),
              !.stability = stabilityOf(lv),
              !.stabilityColor = stabilityColorOf(lv),
              !.sat = updateSaturationZone(s.sat, lv),
              !.clay = clayStressOf(lv)]

\* --------------------------------------------------------------- timeline
\* the width written to #timeline-progress by the ticks of the three phases,
\* elapsed ms into a phase of the given duration: base + progress * span
\* percent with progress = min(elapsed / duration, 1), to the nearest
\* 1/1000 percent
timelineAt(base, span, elapsed, duration) ==
    base * Scale
      + (2 * span * Scale * Min(elapsed, duration) + duration) \div (2 * duration)

timelineOfWater(elapsed, duration) == timelineAt(0, 40, elapsed, duration)

\* mutant: the landslide restarts the bar instead of continuing from 40%
timelineOfLandslideFromZero(elapsed, duration) == timelineAt(0, 30, elapsed, duration)

timelineOfLandslide(elapsed, duration) == timelineAt(40, 30, elapsed, duration)

timelineOfTsunami(elapsed, duration) == timelineAt(70, 30, elapsed, duration)

\* ---------------------------------------------------------- water rising
\* mutant: the water tick resolves its promise and still asks for another
\* frame
afterWaterKeepsTicking(s, r) ==
    [s EXCEPT !.runs[r] = [DoneRun EXCEPT !.pc = "pause1"],
              !.raf = Append(@, TickEntry("water", r))]

\* what follows the water promise: delay(1000)
afterWater(s, r) ==
    [s EXCEPT !.runs[r] = [DoneRun EXCEPT !.pc = "pause1"]]

\* the exception reaches the catch block of playDisasterSequence: the finally
\* block finds the run flag still set, so it only re-enables the controls
caughtFault(s, r) ==
    [enableControls(s) EXCEPT !.runs[r] = DoneRun, !.fault = Thrown]

\* the exception leaves a requestAnimationFrame callback: the phase promise
\* is never settled and the invocation never resumes
lostFault(s, r) ==
    [s EXCEPT !.runs[r] = DoneRun, !.fault = Thrown]

\* an exception leaves a tick: the first tick of a phase runs inside the
\* promise executor, under the try of playDisasterSequence; a later tick is a
\* requestAnimationFrame callback
tickThrows(s, r, sync) ==
    IF sync THEN caughtFault(s, r) ELSE lostFault(s, r)

\* Math.round(startLevel + (endLevel - startLevel) * easedProgress), elapsed
\* ms into the water rise
currentLevelAt(elapsed) ==
    LET duration == Max(endLevel - startLevel, startLevel - endLevel) * msPerLevel
        eased == easeInOutQuad(Min(elapsed, duration), duration)
    IN  (2 * (startLevel * duration * duration + (endLevel - startLevel) * eased)
           + duration * duration) \div (2 * duration * duration)

\* updateWaterAnimation, one tick; sync: called from the promise executor.
\* The timeline and the slider are written before the first collaborator
\* (models.water.updateWaterLevel) is called
updateWaterAnimation(s, r, sync) ==
    IF ~s.animating THEN afterWater(s, r)
    ELSE IF Throws(s, "water", r, "entry") THEN tickThrows(s, r, sync)
    ELSE
      LET progress == Progress(s.runs[r].elapsed, Max(endLevel - startLevel, startLevel - endLevel) * msPerLevel)
          currentLevel == currentLevelAt(s.runs[r].elapsed)
          s0 == [s EXCEPT !.timelineWidth =
                              timelineOfWater(s.runs[r].elapsed,
                                  Max(endLevel - startLevel, startLevel - endLevel) * msPerLevel),
                          !.level = currentLevel]
          s1 == applyLevel(s0, currentLevel)
      IN  IF Throws(s, "water", r, "collaborator") THEN tickThrows(s0, r, sync)
          ELSE IF progress < Scale
          THEN [s1 EXCEPT !.raf = Append(@, TickEntry("water", r))]
          ELSE afterWater(s1, r)

animateWaterLevel(s, r) ==
    updateWaterAnimation([s EXCEPT !.runs[r] = [DoneRun EXCEPT !.pc = "water"]], r, TRUE)

\* CameraController.setCamera, one tick of animateCamera
animateCamera(s, e) ==
    LET progress == Progress(e.elapsed, cameraTransition)
        one == cameraTransition * cameraTransition * cameraTransition
        eased == easeInOutCubic(Min(e.elapsed, cameraTransition), cameraTransition)
        s1 == [s EXCEPT !.camPos = lerpVectors(e.from, e.to, eased, one),
                        !.camTarget = lerpVectors(e.fromT, e.to, eased, one)]
    IN  IF progress < Scale THEN [s1 EXCEPT !.raf = Append(@, e)]
        ELSE IF e.run # 0 THEN animateWaterLevel(s1, e.run)
        ELSE s1

\* CameraController.setActiveView: every view button loses the 'active' class,
\* the button with the id view-<view> gets it if there is one
setActiveView(s, view) ==
    [s EXCEPT !.activeView = IF view \in ViewButtonIds THEN view ELSE "none"]

setCamera(s, position, r) ==
    animateCamera(s, [kind |-> "cam", run |-> r, from |-> s.camPos,
                      fromT |-> s.camTarget, to |-> position,
                      elapsed |-> 0, dur |-> cameraTransition])

\* AnimationUtils.addCameraShake, one tick of shakeStep
shakeStep(s, e) ==
    IF e.elapsed >= e.dur THEN [s EXCEPT !.camPos = e.from]
    ELSE [s EXCEPT !.camPos = "offPreset", !.raf = Append(@, e)]

addCameraShake(s, duration) ==
    shakeStep(s, [kind |-> "shake", run |-> 0, from |-> s.camPos,
                  fromT |-> "none", to |-> "none", elapsed |-> 0,
                  dur |-> duration])

\* ------------------------------------------------------------------ reset
\* mutant: only the particle systems are removed, the wave mesh stays
cleanupAnimationObjectsPointsOnly(s) ==
    [s EXCEPT !.objects = [NoObjects EXCEPT !.wave = s.objects.wave]]

cleanupAnimationObjects(s) == [s EXCEPT !.objects = NoObjects]

resetSimulation(s) ==
    LET s1 == [s EXCEPT !.animating = FALSE,
                        !.level = defaultLevel,
                        !.waterY = heightFromLevel(defaultLevel),
                        !.stability = stabilityOf(defaultLevel),
                        !.stabilityColor = stabilityColorOf(defaultLevel),
                        !.sat = updateSaturationZone(s.sat, defaultLevel)]
        s2 == IF s1.blockPresent
              THEN [s1 EXCEPT !.block = [visible |-> TRUE,
                                         pos |-> originalPosition,
                                         rot |-> originalRotation]]
              ELSE s1
        s3 == setActiveView([s2 EXCEPT !.clay = clayStressOf(defaultLevel),
                                       !.timelineVisible = FALSE], "aerial")
        s4 == setCamera(s3, "aerial", 0)
    IN  enableControls(cleanupAnimationObjects(s4))

\* the finally block of playDisasterSequence, then the invocation is over
finally(s, r) ==
    LET s1 == IF ~s.animating THEN resetSimulation(s) ELSE s
    IN  [enableControls(s1) EXCEPT !.runs[r] = DoneRun]

\* ---------------------------------------------------------------- tsunami
\* what follows the tsunami promise: delay(1000)
afterTsunami(s, r) ==
    [s EXCEPT !.runs[r] = [DoneRun EXCEPT !.pc = "pause2"]]

\* animateWaveStep, one tick; the comparisons of progress with 0.7, 0.8 and
\* 0.85 are made on elapsed / tsunamiTime itself
animateWaveStep(s, r, sync) ==
    IF ~s.animating THEN afterTsunami(s, r)
    ELSE IF Throws(s, "tsunami", r, "entry") THEN tickThrows(s, r, sync)
    ELSE
      LET progress == Progress(s.runs[r].elapsed, tsunamiTime)
          elapsed == Min(s.runs[r].elapsed, tsunamiTime)
          wh == s.runs[r].waterHeight
          \* THREE.MathUtils.lerp(waterHeight, dam.height + 10, (progress - 0.7) / 0.3),
          \* to the nearest 1/100
          overflowHeight ==
              wh + (2 * ((damHeight + 10) * 100 - wh) * (10 * elapsed - 7 * tsunamiTime)
                      + 3 * tsunamiTime) \div (6 * tsunamiTime)
          s1 == [s EXCEPT !.timelineWidth =
                              timelineOfTsunami(s.runs[r].elapsed, tsunamiTime)]
          s2 == IF 10 * elapsed > 7 * tsunamiTime
                THEN [s1 EXCEPT !.waterY = overflowHeight] ELSE s1
          s3 == IF /\ 10 * elapsed > 7 * tsunamiTime
                   /\ 100 * elapsed > 80 * tsunamiTime
                   /\ 100 * elapsed < 85 * tsunamiTime
                THEN [s2 EXCEPT !.objects.overtopping = @ + 1]
                ELSE s2
      IN  IF Throws(s, "tsunami", r, "collaborator")   \* wave.scale.set
          THEN tickThrows(s1, r, sync)
          ELSE IF progress < Scale
          THEN [s3 EXCEPT !.raf = Append(@, TickEntry("tsunami", r))]
          ELSE afterTsunami(s3, r)

\* DisasterController._animateTsunami: the wave mesh, the splash burst and the
\* camera shake are created before the first tick looks at the run flag
animateTsunami(s, r) ==
    LET s1 == [s EXCEPT !.objects.wave = @ + 1, !.objects.splash = @ + 1,
                        !.runs[r] = [DoneRun EXCEPT !.pc = "tsunami",
                                                    !.waterHeight = s.waterY]]
        s2 == addCameraShake(s1, tsunamiShakeMs)
    IN  animateWaveStep(s2, r, TRUE)

\* -------------------------------------------------------------- landslide
\* the body of a landslide tick that found the run flag set
landslideBody(s, r, sync) ==
    IF Throws(s, "landslide", r, "entry") THEN tickThrows(s, r, sync)
    ELSE
      LET progress == Progress(s.runs[r].elapsed, landslideTime)
          eased == easeInOutBack(progress)
          p0 == s.runs[r].startPos
          r0 == s.runs[r].startRot
          s0 == [s EXCEPT !.timelineWidth =
                              timelineOfLandslide(s.runs[r].elapsed, landslideTime)]
          s1 == [s0 EXCEPT !.block.pos = [x |-> p0.x + 30 * eased,
                                         y |-> p0.y - 40 * eased,
                                         z |-> p0.z + 40 * eased],
                          !.block.rot = [x |-> r0.x + (200 * eased) \div Scale,
                                         y |-> s.block.rot.y,
                                         z |-> r0.z - (100 * eased) \div Scale]]
      IN  IF Throws(s, "landslide", r, "collaborator")   \* lerpVectors
          THEN tickThrows(s0, r, sync)
          ELSE IF progress < Scale
          THEN [s1 EXCEPT !.raf = Append(@, TickEntry("landslide", r))]
          ELSE animateTsunami(s1, r)

\* mutant: the tick does not look at the run flag
animateLandslideStepNoCancel(s, r, sync) == landslideBody(s, r, sync)

\* animateLandslideStep, one tick
animateLandslideStep(s, r, sync) ==
    IF ~s.animating THEN animateTsunami(s, r) ELSE landslideBody(s, r, sync)

\* DisasterController._animateLandslide
animateLandslide(s, r) ==
    IF ~s.blockPresent THEN animateTsunami(s, r)
    ELSE
      LET s1 == [s EXCEPT !.objects.debris = @ + 1,
                          !.runs[r] = [DoneRun EXCEPT !.pc = "landslide",
                                                      !.startPos = s.block.pos,
                                                      !.startRot = s.block.rot]]
          s2 == addCameraShake(s1, landslideShakeMs)
      IN  animateLandslideStep(s2, r, TRUE)

\* ---------------------------------------------------------------- summary
\* mutant: the run flag is cleared but no overlay is shown
showDisasterSummaryFlagOnly(s) == [s EXCEPT !.animating = FALSE]

showDisasterSummary(s) ==
    [s EXCEPT !.animating = FALSE, !.overlays = @ + 1]

\* the continuation of playDisasterSequence after a delay(1000)
afterDelay(s, r) ==
    IF s.runs[r].pc = "pause1"
    THEN (IF ~s.animating THEN finally(s, r) ELSE animateLandslide(s, r))
    ELSE finally(IF s.animating THEN showDisasterSummary(s) ELSE s, r)

\* ------------------------------------------------------------------ start
\* the slot the new invocation is kept in: the lowest free one
FreeRun(s) ==
    IF \E r \in RunIds : ~Live(s, r)
    THEN CHOOSE r \in RunIds : ~Live(s, r) /\ \A q \in RunIds : q < r => Live(s, q)
    ELSE MaxRuns

\* playDisasterSequence past its guard
beginSequence(s) ==
    LET r == FreeRun(s)
        s1 == disableControls([s EXCEPT !.animating = TRUE])
        s2 == [s1 EXCEPT !.timelineVisible = TRUE, !.timelineWidth = 0,
                         !.runs[r] = [DoneRun EXCEPT !.pc = "camera"]]
    IN  setCamera(setActiveView(s2, "slope"), "slope", r)

\* mutant: the single-flight guard is missing
playDisasterSequenceUnguarded(s) == beginSequence(s)

\* DisasterController.playDisasterSequence up to its first await
playDisasterSequence(s) ==
    IF s.animating THEN s ELSE beginSequence(s)

\* ------------------------------------------------------------------ frame
\* one callback registered with requestAnimationFrame
runCallback(s, e) ==
    CASE e.kind = "cam" -> animateCamera(s, e)
      [] e.kind = "shake" -> shakeStep(s, e)
      [] e.kind = "water" -> updateWaterAnimation(s, e.run, FALSE)
      [] e.kind = "landslide" -> animateLandslideStep(s, e.run, FALSE)
      [] e.kind = "tsunami" -> animateWaveStep(s, e.run, FALSE)

RECURSIVE runCallbacks(_, _)
runCallbacks(s, q) ==
    IF q = <<>> THEN s
    ELSE CHOOSE u \in {runCallbacks(t, Tail(q)) : t \in {runCallback(s, Head(q))}} : TRUE

\* the clock moves on by dt for every pending callback and every invocation
advanceClock(s, dt) ==
    [s EXCEPT !.runs = [r \in RunIds |->
                           IF Live(s, r) THEN [s.runs[r] EXCEPT !.elapsed = @ + dt]
                           ELSE s.runs[r]],
              !.raf = [i \in 1 .. Len(s.raf) |->
                           [s.raf[i] EXCEPT !.elapsed = @ + dt]]]

\* the browser renders a frame dt ms after the last one
renderFrameAfter(s, dt) ==
    LET s1 == advanceClock(s, dt)
    IN  runCallbacks([s1 EXCEPT !.raf = <<>>], s1.raf)

renderFrame(s) == renderFrameAfter(s, FrameMs)

TimerDue(s, r) ==
    s.runs[r].pc \in {"pause1", "pause2"} /\ s.runs[r].elapsed >= pauseMs

\* ------------------------------------------------- SimulationController
\* the controller as its constructor leaves it
NewSim ==
    [pc |-> "constructed", sceneImport |-> "none", uiImport |-> "none",
     scene |-> FALSE, ui |-> FALSE, sceneArg |-> FALSE,
     cameraRenderer |-> "none", disasterUi |-> "none",
     error |-> "none", running |-> FALSE, chains |-> 0]

\* the controller once init() has gone through with both views in place
ReadySim ==
    [pc |-> "ready", sceneImport |-> "resolved", uiImport |-> "resolved",
     scene |-> TRUE, ui |-> TRUE, sceneArg |-> TRUE,
     cameraRenderer |-> "renderer", disasterUi |-> "elements",
     error |-> "none", running |-> TRUE, chains |-> 1]

\* the model creations of _loadModels that wait for textures, in order
Loading == <<"terrainHeightMap", "terrainTexture", "crossSection", "water",
             "mountToc", "clayLayer", "dam">>

\* SimulationController.start: _animate() asks for a frame at once
start(s) ==
    IF ~s.sim.running
    THEN [s EXCEPT !.sim.running = TRUE, !.sim.chains = @ + 1]
    ELSE s

\* SimulationController.stop: the callback already requested stays requested
stop(s) == [s EXCEPT !.sim.running = FALSE]

\* the requested _animate callbacks run: each asks for the next frame if the
\* loop is running and returns otherwise
animate(s) ==
    IF s.sim.running THEN s ELSE [s EXCEPT !.sim.chains = 0]

\* the catch of init(): _showErrorMessage, through the view if there is one
initFailed(s) ==
    [s EXCEPT !.sim.pc = "failed",
              !.sim.error = IF s.sim.ui THEN "message" ELSE "alert"]

\* _setupControllers and what follows it in init(): without a renderer the
\* CameraController constructor throws at renderer.domElement, no controller
\* is created and init() ends in its catch
setupControllers(s) ==
    IF ~s.sim.scene THEN initFailed(s)
    ELSE start([s EXCEPT !.sim.pc = "ready",
                         !.sim.cameraRenderer = "renderer",
                         !.sim.disasterUi =
                             IF s.sim.ui THEN "elements" ELSE "empty"])

\* _loadModels calls the next creation with this.scene as it is now
createNext(s, k) ==
    IF k > Len(Loading) THEN setupControllers(s)
    ELSE IF Loading[k] = "dam" /\ ~s.sim.scene
    THEN initFailed(s)         \* createSaturatedZone: scene.add on undefined
    ELSE [s EXCEPT !.sim.pc = Loading[k], !.sim.sceneArg = s.sim.scene]

\* init() up to its first suspension: the two dynamic imports are started,
\* then createTerrain is called
init(s) ==
    createNext([s EXCEPT !.sim.sceneImport = "pending",
                         !.sim.uiImport = "pending"], 1)

\* the then-callback of import('../views/SceneView.js')
sceneViewImported(s) ==
    [s EXCEPT !.sim.sceneImport = "resolved", !.sim.scene = TRUE]

\* the then-callback of import('../views/UIView.js')
uiViewImported(s) ==
    [s EXCEPT !.sim.uiImport = "resolved", !.sim.ui = TRUE]

\* a loadTexture promise of the creation in progress settles; the creation
\* goes on to scene.add, in its try block or in its catch block
textureSettled(s, ok) ==
    LET k == CHOOSE i \in 1 .. Len(Loading) : Loading[i] = s.sim.pc
    IN  IF s.sim.pc = "terrainHeightMap" /\ ok
        THEN [s EXCEPT !.sim.pc = "terrainTexture"]
        ELSE IF ~s.sim.sceneArg THEN initFailed(s)
        ELSE createNext(s, IF s.sim.pc = "terrainHeightMap" THEN 3 ELSE k + 1)

\* ----------------------------------------------------------- user input
\* UIView._onWaterLevelChange -> SimulationController._onWaterLevelChange
\* (water, stability, saturation, clay), then the stability callback once more
onWaterLevelChange(s, v) ==
    LET indicator == updateStabilityIndicator(v)
    IN  [s EXCEPT !.level = v, !.waterY = heightFromLevel(v),
                  !.stability = indicator.text,
                  !.stabilityColor = indicator.color,
                  !.sat = updateSaturationZone(s.sat, v),
                  !.clay = clayStressOf(v)]

\* UIView.setWaterLevel: the slider is written (a range input keeps its value
\* between min and max), then the same two callbacks get the value as given
setWaterLevel(s, v) ==
    [onWaterLevelChange(s, v) EXCEPT !.level = Max(0, Min(100, v))]

\* controls.js, ArrowUp / ArrowDown: the slider value and the stability
\* indicator are written; nothing listens to 'waterLevelChanged'
arrowKey(s, dir) ==
    LET v == IF dir = "up" THEN Min(100, s.level + keyStep)
             ELSE Max(0, s.level - keyStep)
    IN  [s EXCEPT !.level = v, !.stability = stabilityOf(v),
                  !.stabilityColor = stabilityColorOf(v)]

\* CameraController, a view button's click listener or a key 1-4
viewRequest(s, position) ==
    setCamera(setActiveView(s, position), position, 0)

\* the click on the Close button of the summary: every listener on it removes
\* its overlay and resets
RECURSIVE closeSummary(_, _)
closeSummary(s, n) ==
    IF n = 0 THEN s
    ELSE closeSummary(resetSimulation([s EXCEPT !.overlays = @ - 1]), n - 1)

\* the click on the first Close button of the document: the overlays of the
\* view are only removed (no close callback was given), every overlay of the
\* DisasterController is removed and resets
clickClose(s) ==
    closeSummary([s EXCEPT !.overlays = @ - s.viewOverlays, !.viewOverlays = 0],
                 s.overlays - s.viewOverlays)

\* ------------------------------------------------ UIView, public methods
\* UIView.disableControls / enableControls: the buttons and the slider, not
\* the orbit controls
UIView_disableControls(s) ==
    [s EXCEPT !.buttonsDisabled = TRUE, !.sliderDisabled = TRUE]

UIView_enableControls(s) ==
    [s EXCEPT !.buttonsDisabled = FALSE, !.sliderDisabled = FALSE]

\* UIView.showDisasterSummary with no close callback
UIView_showDisasterSummary(s) ==
    [s EXCEPT !.overlays = @ + 1, !.viewOverlays = @ + 1]

UIView_setTimelineVisible(s, visible) ==
    [s EXCEPT !.timelineVisible = visible]

\* progress is a percentage
UIView_updateTimelineProgress(s, progress) ==
    [s EXCEPT !.timelineWidth = progress * Scale]

\* the same body as CameraController.setActiveView
UIView_setActiveView(s, view) ==
    [s EXCEPT !.activeView = IF view \in ViewButtonIds THEN view ELSE "none"]

\* the invocations still pending are kept oldest first in the lowest slots;
\* the callbacks registered for them follow their invocation
compactRuns(s) ==
    LET slot(r) == Cardinality({q \in RunIds : q <= r /\ Live(s, q)})
        from(i) == CHOOSE r \in RunIds : Live(s, r) /\ slot(r) = i
        n == Cardinality({q \in RunIds : Live(s, q)})
    IN  [s EXCEPT !.runs = [i \in RunIds |-> IF i <= n THEN s.runs[from(i)] ELSE DoneRun],
                  !.raf = [k \in 1 .. Len(s.raf) |->
                              IF s.raf[k].run = 0 THEN s.raf[k]
                              ELSE [s.raf[k] EXCEPT !.run = slot(@)]]]

\* one task has run: s is the state its handler returns
Step(s) ==
    \E u \in {s} : \E t \in {compactRuns(u)} : Becomes(t)

\* ---------------------------------------------------------------- actions
\* the value the user drags the slider to
LevelInputs == {100}
\* the range of the slider, min to max
Levels == 0 .. 100
\* the values setWaterLevel is called with, some outside the slider's range
LevelArgs == (0 - 20) .. 120
\* the values the level is set to while runs come and go: one of the slider's
\* range and one beyond it
LevelCalls == {50, 120}
\* the views the user asks for
ViewInputs == {"dam", "geology"}
\* the percentage updateTimelineProgress is called with
ProgressArgs == {55}
\* the times between two frames: a busy display and a stalled one
FrameSteps == {50, 2000}
UserMayAct == CamCount(raf) < MaxCamAnims

\* the Play button, or the keys p, P and space
Start(via) ==
    /\ via = "button" => ~buttonsDisabled
    /\ UserMayAct
    /\ animating \/ (\E r \in RunIds : ~Live(Cur, r))
    /\ overlays < MaxOverlays
    /\ block.pos.x < MaxSlides * 30 * Scale
    /\ \A r \in RunIds : runs[r].startPos.x < MaxSlides * 30 * Scale
    /\ Step(playDisasterSequence(Cur))

\* the Reset button, or the keys r and R
Reset(via) ==
    /\ via = "button" => ~buttonsDisabled
    /\ UserMayAct
    /\ Step(resetSimulation(Cur))

\* the Close button of the summary overlay
Acknowledge ==
    /\ overlays > 0
    /\ UserMayAct
    /\ Step(clickClose(Cur))

\* the slider's input event; a disabled input fires none
SliderInput(v) ==
    /\ ~sliderDisabled
    /\ Step(onWaterLevelChange(Cur, v))

ArrowKey(dir) ==
    /\ dir \in {"up", "down"}
    /\ Step(arrowKey(Cur, dir))

\* UIView.setWaterLevel called with a value of the slider's range
SetWaterLevel(v) ==
    /\ v \in Levels
    /\ Step(setWaterLevel(Cur, v))

\* UIView.setWaterLevel called with any number
SetWaterLevelArg(v) ==
    /\ v \in LevelArgs
    /\ Step(setWaterLevel(Cur, v))

\* a view button (a disabled button fires no click, and only the buttons the
\* code found by id have a click listener) or one of the keys 1-4
ViewRequest(position, via) ==
    /\ via = "button" => ~buttonsDisabled /\ position \in ViewListenerIds
    /\ UserMayAct
    /\ Step(viewRequest(Cur, position))

\* UIView's public methods called from outside the controllers, once the
\* view is there
DisableControlsCall ==
    /\ sim.ui
    /\ Step(UIView_disableControls(Cur))

EnableControlsCall ==
    /\ sim.ui
    /\ Step(UIView_enableControls(Cur))

ShowDisasterSummaryCall ==
    /\ sim.ui
    /\ overlays < MaxOverlays
    /\ Step(UIView_showDisasterSummary(Cur))

SetTimelineVisibleCall(visible) ==
    /\ sim.ui
    /\ visible \in BOOLEAN
    /\ Step(UIView_setTimelineVisible(Cur, visible))

UpdateTimelineProgressCall(progress) ==
    /\ sim.ui
    /\ progress \in ProgressArgs
    /\ Step(UIView_updateTimelineProgress(Cur, progress))

SetActiveViewCall(view) ==
    /\ sim.ui
    /\ view \in Presets \cup ViewButtonIds
    /\ Step(UIView_setActiveView(Cur, view))

\* a timer set by delay(1000) expires
TimerFire(r) ==
    /\ TimerDue(Cur, r)
    /\ Step(afterDelay(Cur, r))

\* the next frame: time moves on and the registered callbacks run in order
Frame ==
    /\ raf # <<>> \/ \E r \in RunIds : Live(Cur, r)
    /\ \A r \in RunIds : ~TimerDue(Cur, r)
    /\ Step(renderFrame(Cur))

\* a frame that comes dt ms after the last one
FrameAfter(dt) ==
    /\ dt \in FrameSteps
    /\ raf # <<>> \/ \E r \in RunIds : Live(Cur, r)
    /\ \A r \in RunIds : ~TimerDue(Cur, r)
    /\ Step(renderFrameAfter(Cur, dt))

\* SimulationController.init() is called
InitCalled ==
    /\ sim.pc = "constructed"
    /\ Step(init(Cur))

SceneViewImported ==
    /\ sim.sceneImport = "pending"
    /\ Step(sceneViewImported(Cur))

UIViewImported ==
    /\ sim.uiImport = "pending"
    /\ Step(uiViewImported(Cur))

TextureSettled(ok) ==
    /\ \E i \in 1 .. Len(Loading) : Loading[i] = sim.pc
    /\ Step(textureSettled(Cur, ok))

\* SimulationController.start() / stop() called from outside
LoopStart ==
    /\ sim.chains < MaxChains
    /\ Step(start(Cur))

LoopStop ==
    /\ sim.running
    /\ Step(stop(Cur))

\* the frame in which the requested _animate callbacks run
LoopFrame ==
    /\ sim.chains > 0
    /\ Step(animate(Cur))

\* the page and the scene as they are built
InitPage ==
    /\ animating = FALSE
    /\ level = defaultLevel
    /\ waterY = initialHeight * 100
    /\ stability = stabilityOf(defaultLevel)
    /\ stabilityColor = "none"
    /\ sat = [visible |-> FALSE, opacity |-> 700, scale |-> 1000]
    /\ clay = "neutral"
    /\ block = [visible |-> TRUE, pos |-> originalPosition, rot |-> originalRotation]
    /\ timelineVisible = FALSE
    /\ timelineWidth = 0
    /\ buttonsDisabled = FALSE
    /\ sliderDisabled = FALSE
    /\ controlsEnabled = TRUE
    /\ activeView = "none"
    /\ camPos = "aerial"
    /\ camTarget = "aerial"
    /\ objects = NoObjects
    /\ overlays = 0
    /\ viewOverlays = 0
    /\ runs = [r \in RunIds |-> DoneRun]
    /\ raf = <<>>

InitCommon ==
    /\ InitPage
    /\ sim = ReadySim

Init ==
    /\ InitCommon
    /\ blockPresent = TRUE
    /\ fault = NoFault

Next ==
    \/ \E via \in {"button", "key"} : Start(via)
    \/ \E via \in {"button", "key"} : Reset(via)
    \/ Acknowledge
    \/ \E v \in LevelInputs : SliderInput(v)
    \/ \E r \in RunIds : TimerFire(r)
    \/ Frame

\* the class-based application: SimulationController, DisasterController,
\* CameraController and UIView, every collaborator present and sound
Spec == Init /\ [][Next]_vars

\* the same page with the keyboard shortcuts of controls.js installed
NextKeys ==
    \/ Next
    \/ \E dir \in {"up", "down"} : ArrowKey(dir)

SpecKeys == Init /\ [][NextKeys]_vars

\* the same page with the user also asking for camera views
NextView ==
    \/ Next
    \/ \E position \in ViewInputs : \E via \in {"button", "key"} :
           ViewRequest(position, via)

SpecView == Init /\ [][NextView]_vars

\* the same page with a script that calls the public methods of the UIView
\* while runs are started, left alone and acknowledged
NextApi ==
    \/ \E via \in {"button", "key"} : Start(via)
    \/ Acknowledge
    \/ \E r \in RunIds : TimerFire(r)
    \/ Frame
    \/ DisableControlsCall
    \/ EnableControlsCall
    \/ ShowDisasterSummaryCall
    \/ \E visible \in BOOLEAN : SetTimelineVisibleCall(visible)
    \/ \E progress \in ProgressArgs : UpdateTimelineProgressCall(progress)
    \/ \E view \in {"dam", "front"} : SetActiveViewCall(view)

SpecApi == Init /\ [][NextApi]_vars

\* a collaborator is missing or unsound: either the landslide block is null,
\* or one tick callback of one phase throws (on its first, synchronous tick
\* when after = 0, on a later frame otherwise)
Faults ==
    {[phase |-> ph, after |-> a, at |-> w] :
        ph \in {"water", "landslide", "tsunami"}, a \in {0, FrameMs},
        w \in {"entry", "collaborator"}}

InitFault ==
    /\ InitCommon
    /\ \/ blockPresent = FALSE /\ fault = NoFault
       \/ blockPresent = TRUE /\ fault \in Faults

SpecFault == InitFault /\ [][Next]_vars

\* the level is set through the view, by the slider or by setWaterLevel, to
\* any value of the slider's range; no run is started
NextParam ==
    \/ \E v \in Levels : SliderInput(v)
    \/ \E v \in Levels : SetWaterLevel(v)

SpecParam == Init /\ [][NextParam]_vars

\* setWaterLevel is called with values inside and outside the slider's range
NextArg == \E v \in LevelArgs : SetWaterLevelArg(v)

SpecArg == Init /\ [][NextArg]_vars

\* every path that writes the level: the slider, UIView.setWaterLevel, the
\* arrow keys of controls.js, the water rise of a run and reset; runs are
\* left alone, as in NextLive
NextLevel ==
    \/ \E via \in {"button", "key"} : Start(via)
    \/ ~animating /\ (\E via \in {"button", "key"} : Reset(via))
    \/ ~animating /\ Acknowledge
    \/ \E v \in LevelCalls \cap Levels : SliderInput(v)
    \/ \E v \in LevelCalls : SetWaterLevelArg(v)
    \/ \E dir \in {"up", "down"} : ArrowKey(dir)
    \/ \E r \in RunIds : TimerFire(r)
    \/ Frame

SpecLevel == Init /\ [][NextLevel]_vars

\* runs are left alone, as in NextLive, while the browser delivers frames at
\* uneven intervals
NextFrames ==
    \/ \E via \in {"button", "key"} : Start(via)
    \/ ~animating /\ (\E via \in {"button", "key"} : Reset(via))
    \/ ~animating /\ Acknowledge
    \/ \E r \in RunIds : TimerFire(r)
    \/ \E dt \in FrameSteps : FrameAfter(dt)

SpecFrames == Init /\ [][NextFrames]_vars

\* the page from the construction of the SimulationController: init() and
\* the render loop
InitBoot ==
    /\ InitPage
    /\ blockPresent = TRUE
    /\ fault = NoFault
    /\ sim = NewSim

NextBoot ==
    \/ InitCalled
    \/ SceneViewImported
    \/ UIViewImported
    \/ \E ok \in BOOLEAN : TextureSettled(ok)
    \/ LoopStart
    \/ LoopStop
    \/ LoopFrame

SpecBoot == InitBoot /\ [][NextBoot]_vars

\* no run is interrupted: the user starts runs and moves the slider, and
\* resets or closes the summary only between runs; the browser keeps
\* delivering animation frames and timer expiries
NextLive ==
    \/ \E via \in {"button", "key"} : Start(via)
    \/ ~animating /\ (\E via \in {"button", "key"} : Reset(via))
    \/ ~animating /\ Acknowledge
    \/ \E v \in LevelInputs : SliderInput(v)
    \/ \E r \in RunIds : TimerFire(r)
    \/ Frame

SpecLive ==
    /\ Init
    /\ [][NextLive]_vars
    /\ WF_vars(Frame)
    /\ WF_vars(\E r \in RunIds : TimerFire(r))

\* ================================================================= claims
BlockAtOriginal ==
    block.pos = originalPosition /\ block.rot = originalRotation

PhaseLoops == {"water", "landslide", "tsunami"}

\* C1: at most one run is active: with the run flag set, never two
\* invocations of playDisasterSequence are both inside a phase loop
C1_AtMostOneActiveRun ==
    animating => Cardinality({r \in RunIds : runs[r].pc \in PhaseLoops}) <= 1

\* C2: start() while the run flag is set changes nothing at all: no
\* variable of the page, the scene or the pending work differs afterwards
C2_StartWhileRunningIsNoOp ==
    animating => playDisasterSequence(Cur) = Cur

\* a run is in the middle of its landslide and the user is free to press Play
C2_Witness ==
    /\ animating
    /\ UserMayAct
    /\ overlays < MaxOverlays
    /\ \E r \in RunIds : runs[r].pc = "landslide" /\ runs[r].elapsed > 0

\* C3: reset() puts the block at its recorded original pose, and from then
\* on, as long as no run is started, no step moves it away again
C3_ResetMidLandslideKeepsOriginalPose ==
    [][/\ (\E via \in {"button", "key"} : Reset(via)) => BlockAtOriginal'
       /\ (~animating /\ ~animating' /\ BlockAtOriginal) => BlockAtOriginal']_vars

\* the run was reset after at least one landslide tick and is still waiting
\* for its next tick
C3_Witness ==
    /\ ~animating
    /\ BlockAtOriginal
    /\ \E r \in RunIds : runs[r].pc = "landslide" /\ runs[r].elapsed > 0

\* C4: once the run is cancelled (run flag clear) no later phase is entered:
\* no step adds a debris burst, a wave mesh or a splash burst to the scene
C4_CancelledRunEntersNoLaterPhase ==
    [][~animating => /\ objects'.debris <= objects.debris
                     /\ objects'.wave <= objects.wave
                     /\ objects'.splash <= objects.splash]_vars

\* what resetSimulation promises of the state it returns
ResetPost(s) ==
    /\ ~s.animating
    /\ s.level = 30
    /\ s.waterY = 3050
    /\ s.stability = "good"
    /\ ~s.sat.visible
    /\ s.clay = "neutral"
    /\ s.block = [visible |-> TRUE, pos |-> originalPosition, rot |-> originalRotation]
    /\ ~s.timelineVisible
    /\ s.objects = NoObjects
    /\ ~s.sliderDisabled
    /\ ~s.buttonsDisabled
    /\ s.controlsEnabled

\* C5: from every reachable state, the state resetSimulation() returns is the
\* clean one: flag clear, level 30 and 'good', saturation hidden, clay
\* neutral, block at its original pose, timeline hidden, no ephemeral object,
\* slider, buttons and camera controls enabled
C5_ResetRestoresCleanState ==
    ResetPost(resetSimulation(Cur))

\* reset has acted during the tsunami: the clean state with the cancelled
\* run still waiting for its next tsunami tick
C5_Witness ==
    /\ ResetPost(Cur)
    /\ \E r \in RunIds : runs[r].pc = "tsunami" /\ runs[r].elapsed > 0

\* C6: the step that shows the summary does not restore: the timeline stays
\* visible, the block displaced, the level away from 30 and the wave in the scene
C6_NoRestoreBeforeAcknowledge ==
    [][overlays' > overlays => /\ timelineVisible'
                               /\ ~BlockAtOriginal'
                               /\ level' # defaultLevel
                               /\ objects'.wave > 0]_vars

\* C7: the step in which a tick callback throws ends in Idle: run flag
\* clear, level 30, slider, buttons and camera controls enabled
C7_FaultFunnelsIntoReset ==
    [][(fault # Thrown /\ fault' = Thrown) =>
          /\ ~animating'
          /\ level' = defaultLevel
          /\ ~sliderDisabled'
          /\ ~buttonsDisabled'
          /\ controlsEnabled']_vars

\* C8: with a null landslide block the run never reaches the Tsunami phase
\* or the summary, and the timeline never shows the tsunami's 70%
C8_NullBlockRoutesToReset ==
    ~blockPresent =>
        /\ \A r \in RunIds : runs[r].pc \notin {"tsunami", "pause2"}
        /\ objects.wave = 0
        /\ overlays = 0
        /\ timelineWidth < 70 * Scale

\* C9: whenever the run flag is set the water-level slider is disabled
C9_RunningImpliesSliderDisabled ==
    animating => sliderDisabled

\* a run is in progress while an earlier invocation is still pending
C9_Witness ==
    /\ animating
    /\ sliderDisabled
    /\ \A r \in RunIds : Live(Cur, r)

\* C10: while a run is in progress no user input (slider or arrow keys)
\* changes the level
C10_NoUserWriteDuringRun ==
    [][(/\ animating
        /\ \/ \E dir \in {"up", "down"} : ArrowKey(dir)
           \/ \E v \in LevelInputs : SliderInput(v))
       => level' = level]_vars

\* C11: once the run is cancelled (run flag clear), no frame and no timer
\* expiry writes the water level: a level the user sets after reset() stays
C11_NoLevelWriteAfterCancel ==
    [][(~animating /\ (Frame \/ \E r \in RunIds : TimerFire(r)))
       => level' = level]_vars

\* the only pending invocation, with the run flag set: a run that has not
\* been interrupted since its start
SoloRun ==
    /\ animating
    /\ Live(Cur, 1)
    /\ \A r \in RunIds : r # 1 => ~Live(Cur, r)

\* the band of the timeline bar in each phase of the run (1/1000 percent)
TimelineBand ==
    LET pc == runs[1].pc
        w == timelineWidth
    IN  /\ w >= 0 /\ w <= 100 * Scale
        /\ pc = "camera" => w = 0
        /\ pc = "water" => w >= 0 /\ w <= 40 * Scale
        /\ pc = "pause1" => w = 40 * Scale
        /\ pc = "landslide" => w >= 40 * Scale /\ w <= 70 * Scale
        /\ pc = "tsunami" => w >= 70 * Scale /\ w <= 100 * Scale
        /\ pc = "pause2" => w = 100 * Scale

\* C12: in an uninterrupted run the timeline percentage never decreases and
\* stays in the band of the current phase: 0 during the camera move, [0,40]
\* while the water rises and 40 when it has risen, [40,70] during the
\* landslide, [70,100] during the tsunami and 100 when it completes
C12_TimelineMonotoneInBands ==
    [][/\ SoloRun' => TimelineBand'
       /\ (SoloRun /\ SoloRun') => timelineWidth' >= timelineWidth]_vars

\* the uninterrupted run has completed its tsunami with the bar at 100%
C12_Witness ==
    SoloRun /\ runs[1].pc = "pause2" /\ timelineWidth = 100 * Scale

\* C13: with frames and timers delivered fairly and neither reset() nor a
\* fault, every run that is started eventually shows the summary with the
\* run flag cleared
C13_RunReachesSummary ==
    animating ~> (~animating /\ overlays > 0)

\* a run has gone through all its phases: the summary is up, the flag is
\* clear and the bar was left at 100%
C13_Witness ==
    ~animating /\ overlays = 1 /\ timelineWidth = 100 * Scale

\* the phases an invocation can be in after one task, given where it was
NextPhases(pc) ==
    CASE pc = "camera" -> {"camera", "water", "pause1"}
      [] pc = "water" -> {"water", "pause1"}
      [] pc = "pause1" -> {"pause1", "landslide", "done"}
      [] pc = "landslide" -> {"landslide", "tsunami", "pause2"}
      [] pc = "tsunami" -> {"tsunami", "pause2"}
      [] pc = "pause2" -> {"pause2", "done"}
      [] pc = "done" -> {"done", "camera"}

\* the callback kind a phase registers with requestAnimationFrame
TickKind(pc) ==
    CASE pc = "camera" -> "cam"
      [] pc \in PhaseLoops -> pc
      [] OTHER -> "none"

\* every invocation moved along the fixed order from state s to state t and,
\* where it stayed in its phase, its clock did not go back
InOrder(s, t) ==
    \A r \in RunIds :
        /\ t.runs[r].pc \in NextPhases(s.runs[r].pc)
        /\ (t.runs[r].pc = s.runs[r].pc /\ Live(s, r))
               => t.runs[r].elapsed >= s.runs[r].elapsed

\* C14: within one run the phases begin in the fixed order and never
\* overlap: the only callback pending for an invocation is the tick of the
\* phase it is in, at most one of them, and none once the phase has resolved;
\* every task moves every invocation forward along camera, water, pause,
\* landslide, tsunami, pause; within a phase the progress seen by the ticks
\* lies in [0,1] and does not decrease
C14_PhasesInOrderNoOverlap ==
    /\ \A k \in 1 .. Len(raf) :
          raf[k].run # 0 =>
              /\ raf[k].kind = TickKind(runs[raf[k].run].pc)
              /\ \A j \in 1 .. Len(raf) : raf[j].run = raf[k].run => j = k
    /\ \A r \in RunIds :
          /\ Progress(runs[r].elapsed, tsunamiTime) \in 0 .. Scale
          /\ Progress(runs[r].elapsed + FrameMs, tsunamiTime)
                 >= Progress(runs[r].elapsed, tsunamiTime)
    /\ InOrder(Cur, renderFrame(Cur))
    /\ InOrder(Cur, resetSimulation(Cur))
    /\ (animating \/ \E r \in RunIds : ~Live(Cur, r))
           => InOrder(Cur, playDisasterSequence(Cur))
    /\ InOrder(Cur, closeSummary(Cur, overlays))
    /\ \A r \in RunIds : TimerDue(Cur, r) => InOrder(Cur, afterDelay(Cur, r))

\* a run is in the middle of its tsunami, its next tick the only callback
\* pending for it
C14_Witness ==
    /\ animating
    /\ \E r \in RunIds :
          /\ runs[r].pc = "tsunami" /\ runs[r].elapsed > 0
          /\ Cardinality({k \in 1 .. Len(raf) : raf[k].run = r}) = 1

\* C15: every in-flight phase polls the run flag on each tick and resolves
\* early once reset() has cleared it: with the flag clear, the next tick of a
\* cancelled run's camera transition leaves the camera alone, and the next
\* frame finds no invocation still waiting in its 1 s pause
C15_CancelledPhasesResolveEarly ==
    ~animating =>
        /\ \A k \in 1 .. Len(raf) :
              (raf[k].run # 0 /\ raf[k].kind = "cam") =>
                  LET t == animateCamera(Cur, [raf[k] EXCEPT !.elapsed = @ + FrameMs])
                  IN  t.camPos = camPos /\ t.camTarget = camTarget
        /\ \A r \in RunIds :
              (runs[r].pc \in {"pause1", "pause2"} /\ ~TimerDue(Cur, r))
                  => ~Live(renderFrame(Cur), r)

\* C16: between tasks, when a frame can be rendered, the stability category
\* shown, the saturation zone (shown above the threshold only, and then with
\* the opacity and vertical scale of the current level) and the clay layer's
\* stress state are the ones derived from the current level
C16_DerivedVisualsFollowLevel ==
    /\ stability = stabilityOf(level)
    /\ clay = clayStressOf(level)
    /\ sat.visible = (level > saturationThreshold)
    /\ sat.visible => sat = updateSaturationZone(sat, level)

\* C17: for every level in 0..100 the stability lookup gives critical
\* (#e53935) above 80, veryLow (#ff5252) above 65, low (#ff9800) above 50,
\* moderate (#ffc107) above 35, good (#cddc39) above 20 and excellent
\* (#4caf50) otherwise, the boundaries being exclusive; the view's lookup and
\* the disaster controller's give the same category and colour, and the
\* indicator shows them once the level has been set
C17_StabilityLookup ==
    LET expected ==
            CASE level \in 81 .. 100 -> [text |-> "critical", color |-> "#e53935"]
              [] level \in 66 .. 80 -> [text |-> "veryLow", color |-> "#ff5252"]
              [] level \in 51 .. 65 -> [text |-> "low", color |-> "#ff9800"]
              [] level \in 36 .. 50 -> [text |-> "moderate", color |-> "#ffc107"]
              [] level \in 21 .. 35 -> [text |-> "good", color |-> "#cddc39"]
              [] level \in 0 .. 20 -> [text |-> "excellent", color |-> "#4caf50"]
    IN  /\ level \in 0 .. 100
        /\ updateStabilityIndicator(level) = expected
        /\ stabilityOf(level) = expected.text
        /\ stabilityColorOf(level) = expected.color
        /\ stability = expected.text
        /\ stabilityColor # "none" => stabilityColor = expected.color

\* the level has been set to the boundary 80, which still reads veryLow
C17_Witness ==
    level = 80 /\ stability = "veryLow" /\ stabilityColor = "#ff5252"

\* C18 as stated: once the level has been set to 50 through the view while
\* idle, the stability category reads low and the clay layer is under high
\* stress (orange)
C18_Level50ReadsLow ==
    (~animating /\ level = 50) => (stability = "low" /\ clay = "orange")

\* C18, amended: the thresholds are exclusive, so a level of 50 set through
\* the view while idle reads moderate (#ffc107) with the clay layer in its
\* normal state, whatever was shown before; 51 is the first level that reads
\* low with the clay layer orange
C18_Level50ReadsModerate ==
    /\ (~animating /\ level = 50)
           => (stability = "moderate" /\ stabilityColor = "#ffc107" /\ clay = "neutral")
    /\ (~animating /\ level = 51)
           => (stability = "low" /\ stabilityColor = "#ff9800" /\ clay = "orange")
    /\ ~animating =>
           LET t == setWaterLevel(Cur, 50)
           IN  t.stability = "moderate" /\ t.clay = "neutral"

\* the level has been set to 50 while idle
C18_Witness ==
    ~animating /\ level = 50 /\ clay = "neutral" /\ stability = "moderate"

\* C19: the saturation zone is hidden at level 30 and below and shown above
\* 30; when shown, scaleFactor = (level-30)/70 lies in (0,1], the opacity is
\* 0.3 + 0.5*scaleFactor = (level+12)/140 and the vertical scale is
\* 0.6 + 0.5*scaleFactor = (level+54)/140, to within the per-mille grid;
\* level 100 gives opacity 0.8 and vertical scale 1.1
C19_SaturationFollowsLevel ==
    /\ sat.visible = (level > 30)
    /\ sat.visible =>
          /\ 0 < level - 30 /\ level - 30 <= 70
          /\ 140 * sat.opacity <= Scale * (level + 12)
          /\ 140 * (sat.opacity + 1) > Scale * (level + 12)
          /\ 140 * sat.scale <= Scale * (level + 54)
          /\ 140 * (sat.scale + 1) > Scale * (level + 54)
          /\ sat.opacity \in 300 .. 800
          /\ sat.scale \in 600 .. 1100
    /\ level = 100 => sat = [visible |-> TRUE, opacity |-> 800, scale |-> 1100]
    /\ \A lv \in {30, 31} :
          updateSaturationZone(sat, lv).visible = (lv = 31)

\* the level has been set to 100: the zone is at its full extent
C19_Witness ==
    level = 100 /\ sat = [visible |-> TRUE, opacity |-> 800, scale |-> 1100]

\* C20: the water height minHeight + (level/100)*(maxHeight-minHeight), with
\* minHeight 5 and maxHeight 90, is 5 at level 0 and 90 at level 100, does
\* not decrease as the level goes up through 0..100, and is what
\* updateWaterLevel leaves in the water mesh (heights in 1/100 units)
C20_WaterHeightFromLevel ==
    /\ heightFromLevel(0) = 5 * 100
    /\ heightFromLevel(100) = 90 * 100
    /\ \A lv \in 0 .. 99 : heightFromLevel(lv) <= heightFromLevel(lv + 1)
    /\ heightFromLevel(level) = 5 * 100 + level * (90 - 5)
    /\ setWaterLevel(Cur, level).waterY = heightFromLevel(level)
    /\ \/ waterY = heightFromLevel(level)
       \/ /\ stabilityColor = "none"
          /\ level = defaultLevel
          /\ waterY = initialHeight * 100

\* the level has been set to 100 and the water stands at 90
C20_Witness ==
    level = 100 /\ waterY = 90 * 100 /\ ~animating

\* C21: a value outside [0,100] given to setWaterLevel is clamped before it
\* is applied: the water height, the stability category, the saturation zone
\* and the clay layer are those of a level within [0,100], the one the
\* slider shows
C21_LevelClampedBeforeApplied ==
    /\ level \in 0 .. 100
    /\ stabilityColor # "none" =>
          /\ waterY = heightFromLevel(level)
          /\ waterY \in heightFromLevel(0) .. heightFromLevel(100)
          /\ stability = stabilityOf(level)
          /\ clay = clayStressOf(level)
          /\ sat.visible = (level > saturationThreshold)
          /\ sat.visible => sat = updateSaturationZone(sat, level)

\* C22: while a run is in progress a view request of the user (view button
\* or key 1-4) starts no camera transition and moves neither the camera nor
\* the controls target
C22_NoViewChangeDuringRun ==
    [][(/\ animating
        /\ \E position \in ViewInputs : \E via \in {"button", "key"} :
               ViewRequest(position, via))
       => /\ CamCount(raf') = CamCount(raf)
          /\ camPos' = camPos
          /\ camTarget' = camTarget]_vars

\* C23: each easing function is exactly 0 at 0 and exactly 1 at 1, so the
\* tick that completes a phase (progress 1) leaves the target at the end of
\* its interpolation: the water-rise tick writes level 85, the landslide tick
\* puts the block at its start position + (30,-40,40) with rotation
\* + (0.2, 0, -0.1)
C23_EasingEndpointsExact ==
    /\ easeInOutQuad(0, Scale) = 0 /\ easeInOutQuad(Scale, Scale) = Scale * Scale
    /\ easeInOutCubic(0, Scale) = 0
    /\ easeInOutCubic(Scale, Scale) = Scale * Scale * Scale
    /\ easeOutQuad(0) = 0 /\ easeOutQuad(Scale) = Scale
    /\ easeOutCubic(0) = 0 /\ easeOutCubic(Scale) = Scale
    /\ easeInOutBack(0) = 0 /\ easeInOutBack(Scale) = Scale
    /\ animating =>
          \A r \in RunIds :
             LET s1 == advanceClock(Cur, FrameMs)
             IN  /\ (/\ runs[r].pc = "water"
                     /\ Progress(s1.runs[r].elapsed, (endLevel - startLevel) * msPerLevel) = Scale)
                        => updateWaterAnimation(s1, r, FALSE).level = 85
                 /\ (/\ runs[r].pc = "landslide"
                     /\ Progress(s1.runs[r].elapsed, landslideTime) = Scale)
                        => LET t == animateLandslideStep(s1, r, FALSE)
                           IN  /\ t.block.pos = [x |-> runs[r].startPos.x + 30 * Scale,
                                                 y |-> runs[r].startPos.y - 40 * Scale,
                                                 z |-> runs[r].startPos.z + 40 * Scale]
                               /\ t.block.rot = [x |-> runs[r].startRot.x + 200,
                                                 y |-> runs[r].startRot.y,
                                                 z |-> runs[r].startRot.z - 100]

\* the landslide of a run has completed: the block is at the end of its path
\* and the tsunami is under way
C23_Witness ==
    /\ animating
    /\ \E r \in RunIds :
          /\ runs[r].pc = "tsunami"
          /\ block.pos = [x |-> runs[r].startPos.x + 30 * Scale,
                          y |-> runs[r].startPos.y - 40 * Scale,
                          z |-> runs[r].startPos.z + 40 * Scale]
    /\ level = 85

\* C24: every tick of the water rise writes an integer level within
\* [30,85], not below the level the previous tick of the same run left, and
\* recomputes stability, saturation zone and clay layer for it; the tick that
\* completes the phase leaves level 85, stability critical, the clay layer
\* red and the saturation zone shown
C24_WaterRiseTicks ==
    animating =>
        \A r \in RunIds :
            runs[r].pc = "water" =>
                LET s1 == advanceClock(Cur, FrameMs)
                    t == updateWaterAnimation(s1, r, FALSE)
                    duration == (endLevel - startLevel) * msPerLevel
                    prev == currentLevelAt(runs[r].elapsed)
                IN  /\ t.level \in startLevel .. endLevel
                    /\ t.level >= prev
                    /\ t.stability = stabilityOf(t.level)
                    /\ t.clay = clayStressOf(t.level)
                    /\ t.sat = updateSaturationZone(sat, t.level)
                    /\ t.waterY = heightFromLevel(t.level)
                    /\ Progress(s1.runs[r].elapsed, duration) = Scale =>
                          /\ t.level = 85
                          /\ t.stability = "critical"
                          /\ t.clay = "red"
                          /\ t.sat.visible

\* the water rise of a run has just completed
C24_Witness ==
    /\ animating
    /\ \E r \in RunIds : runs[r].pc = "pause1" /\ runs[r].elapsed = 0
    /\ level = 85
    /\ stability = "critical"
    /\ clay = "red"
    /\ sat.visible
    /\ timelineWidth = 40 * Scale

\* C25: whatever the frame timing, a tsunami phase that has completed has
\* created exactly one overtopping particle burst, and a tsunami phase still
\* under way at most one
C25_OneOvertoppingBurst ==
    animating =>
        /\ (\E r \in RunIds : runs[r].pc = "pause2") => objects.overtopping = 1
        /\ (\E r \in RunIds : runs[r].pc = "tsunami") => objects.overtopping <= 1

\* C26: once the aerial transition started by reset() has finished (run flag
\* clear, camera at the aerial preset, no transition pending), no frame and
\* no timer expiry moves the camera away from the aerial preset: neither a
\* slope transition still running nor a camera shake restoring the position
\* it saved
C26_CameraStaysAerialAfterReset ==
    [][(/\ ~animating
        /\ camPos = "aerial"
        /\ camTarget = "aerial"
        /\ CamCount(raf) = 0
        /\ Frame \/ \E r \in RunIds : TimerFire(r))
       => camPos' = "aerial" /\ camTarget' = "aerial"]_vars

\* C27: while a summary overlay is shown and not yet closed, start() begins
\* no run, so the Close button is never pressed while a run is in progress
C27_NoRunWhileSummaryPending ==
    [][/\ (/\ overlays > 0
           /\ ~animating
           /\ \E via \in {"button", "key"} : Start(via)) => ~animating'
       /\ Acknowledge => ~animating]_vars

\* C28: whenever a landslide phase begins the block is at its recorded
\* original position and rotation: the start pose every landslide captures
\* is the original one
C28_LandslideStartsFromOriginal ==
    \A r \in RunIds :
        runs[r].pc = "landslide" =>
            /\ runs[r].startPos = originalPosition
            /\ runs[r].startRot = originalRotation

\* C29: whatever the sequence of start() and stop() calls and frames, at
\* most one _animate callback is requested at any time
C29_AtMostOneRenderChain ==
    sim.chains <= 1

\* C30: during init() the scene, the renderer and the UI element references
\* are set before they are used: no model creation is given an undefined
\* scene, the CameraController is not given an undefined renderer and the
\* DisasterController is given the uiElements that hold the slider
C30_ViewsSetBeforeUse ==
    /\ (\E i \in 1 .. Len(Loading) : Loading[i] = sim.pc) => sim.sceneArg
    /\ sim.pc = "ready" => sim.cameraRenderer = "renderer"
    /\ sim.disasterUi # "empty"
    /\ sim.pc # "failed"

====
